---------------------------- MODULE Spec2Model ----------------------------
(* Model of the retrieval-augmented chat engine (src/rag_engine.py) and of *)
(* the chat session that drives it (src/app.py).                           *)
(*                                                                         *)
(* Texts are sequences of atoms.  An atom is either one character that the *)
(* directive pattern distinguishes ("[", "]", " ") or an indivisible piece *)
(* of text: the literal "REQUEST_DOCUMENT:", a word, a document name, or a *)
(* literal chunk of a prompt template.                                      *)
EXTENDS Integers, Sequences, FiniteSets, TLC

VARIABLES
    \* st.session_state of the app
    chat_history,            \* list of turns
    pending_doc_request,     \* None or the requested document name
    available_documents,     \* catalog of document names
    \* the RAGEngine object
    model,                   \* TRUE iff self.model was initialised
    \* the call of generate_response_with_chat in progress
    pc,                      \* position of the handler / of the call
    entry,                   \* who called: "app" or "direct"
    call,                    \* the arguments: query, chat_history, available_documents
    path,                    \* branch the call took
    recent_document_requests,
    relevant_docs,
    context,                 \* None or the context _create_context built
    prompt,                  \* None or the prompt handed to the backend
    backend_calls,           \* backend invocations during this call
    backend_raised,          \* TRUE iff generate_content raised in this call
    raw_response,
    processed_response,
    response,                \* the dict the call returned
    \* a parser run on its own
    response_text,           \* the raw text handed to _process_response
    processed                \* its result, or NotRun

session_vars == <<chat_history, pending_doc_request, available_documents, model>>
call_vars == <<pc, entry, call, path, recent_document_requests, relevant_docs,
               context, prompt, backend_calls, backend_raised, raw_response,
               processed_response, response>>
parse_vars == <<response_text, processed>>
vars == <<session_vars, call_vars, parse_vars>>

-----------------------------------------------------------------------------
(* Bounds *)

\* longest raw text of a parser run that is made of the pattern's characters
MaxRaw == 8
\* longest raw text of a parser run that also holds ordinary words
MaxWordy == 6
\* longest conversation (turns in chat_history) of a session
MaxTurns == 6
\* longest history handed to a direct call of the engine
MaxHistory == 3
\* longest history handed to the history scan and the context builder
MaxScan == 7

-----------------------------------------------------------------------------
(* A Python value that may be None: None, or Some(text) for a str *)

None == << >>
Some(x) == <<x>>

\* truth value of such a value: None and the empty str are falsy
Truthy(v) == v # None /\ v[1] # << >>

-----------------------------------------------------------------------------
(* Text helpers *)

\* the characters str.strip() removes
Whitespace == {" "}

\* s[a..b], the empty text when a > b
Slice(s, a, b) == IF a > b THEN << >> ELSE SubSeq(s, a, b)

\* `sub in s` of Python: sub occurs in s as a contiguous piece
Contains(s, sub) ==
    \E i \in 1..(Len(s) - Len(sub) + 1) : SubSeq(s, i, i + Len(sub) - 1) = sub

\* str.strip(): drop leading and trailing whitespace
strip(s) ==
    LET keep == {i \in 1..Len(s) : s[i] \notin Whitespace}
    IN  IF keep = {} THEN << >>
        ELSE LET first == CHOOSE i \in keep : \A j \in keep : i <= j
                 last  == CHOOSE i \in keep : \A j \in keep : j <= i
             IN  SubSeq(s, first, last)

-----------------------------------------------------------------------------
(* The directive pattern r'\[REQUEST_DOCUMENT:([^\]]+)\]' *)

TagOpen == <<"[", "REQUEST_DOCUMENT:">>

\* the pattern matches s starting at position i: the opening literal, a name
\* of at least one non-"]" character, then the first "]" that follows
MatchAt(s, i) ==
    /\ i + 3 <= Len(s)
    /\ SubSeq(s, i, i + 1) = TagOpen
    /\ s[i + 2] # "]"
    /\ \E j \in (i + 3)..Len(s) : s[j] = "]"

\* position of the "]" that closes the match starting at i
MatchEnd(s, i) ==
    CHOOSE j \in (i + 3)..Len(s) :
        /\ s[j] = "]"
        /\ \A k \in (i + 3)..(j - 1) : s[k] # "]"

\* re.search from position pos on: start of the leftmost match, 0 when none
SearchFrom(s, pos) ==
    LET starts == {i \in pos..Len(s) : MatchAt(s, i)}
    IN  IF starts = {} THEN 0
        ELSE CHOOSE i \in starts : \A j \in starts : i <= j

\* match.group(1)
Group1(s, i) == SubSeq(s, i + 2, MatchEnd(s, i) - 1)

\* re.sub(pattern, '', s): one left-to-right pass over the non-overlapping
\* matches; the text between them is copied, never scanned again
RECURSIVE SubFrom(_, _)
SubFrom(s, pos) ==
    LET i == SearchFrom(s, pos)
    IN  IF i = 0 THEN Slice(s, pos, Len(s))
        ELSE Slice(s, pos, i - 1) \o SubFrom(s, MatchEnd(s, i) + 1)

\* search as it would be if the last match were taken instead of the first
search_last(text) ==
    LET starts == {i \in 1..Len(text) : MatchAt(text, i)}
    IN  IF starts = {} THEN 0
        ELSE CHOOSE i \in starts : \A j \in starts : j <= i

\* re.search(pattern, text)
search(text) == SearchFrom(text, 1)

\* _process_response as it would be if the answer were stripped on every path
process_response_stripped(text) ==
    LET match == search(text)
    IN  IF match # 0
        THEN [answer |-> strip(SubFrom(text, 1)),
              document_request |-> Some(strip(Group1(text, match)))]
        ELSE [answer |-> strip(text)]

\* RAGEngine._process_response
process_response(text) ==
    LET match == search(text)
    IN  IF match # 0
        THEN [answer |-> strip(SubFrom(text, 1)),
              document_request |-> Some(strip(Group1(text, match)))]
        ELSE [answer |-> text]

\* the result slot of a parser run before the parser ran
NotRun == [none |-> TRUE]

\* dict.get(key, default)
Get(d, key, default) == IF key \in DOMAIN d THEN d[key] ELSE default


-----------------------------------------------------------------------------
(* Literal texts of the engine and of the app *)

NotInitializedMsg == <<"Error: Gemini API model not initialized. Please check your API key.">>
NoInfoMsg == <<"Saya tidak dapat menemukan informasi yang relevan untuk menjawab pertanyaan Anda.">>
ErrorPrefix == <<"Error generating response: ">>
\* str(e) of the exception raised by the vector store / by the backend
RetrievalExc == <<"retrieval failure">>
BackendExc == <<"backend failure">>

\* the phrase _check_recent_document_requests looks for
Marker == <<"permintaan dokumen">>
ApprovePrefix == <<"User menyetujui ">> \o Marker \o <<": ">>
RejectPrefix == <<"User menolak ">> \o Marker \o <<": ">>

\* str(n) for the small numbers that are formatted into texts
Str(n) == <<"0", "1", "2", "3", "4", "5", "6", "7", "8", "9">>[n + 1]

\* sep.join(texts)
RECURSIVE Join(_, _)
Join(texts, sep) ==
    IF texts = << >> THEN << >>
    ELSE IF Len(texts) = 1 THEN texts[1]
    ELSE texts[1] \o sep \o Join(Tail(texts), sep)

\* os.path.basename of a path given as its components
basename(p) == <<p[Len(p)]>>

\* str.capitalize() of a role
capitalize(role) ==
    CASE role = "user" -> "User"
      [] role = "assistant" -> "Assistant"
      [] role = "system" -> "System"
      [] OTHER -> "Unknown"

-----------------------------------------------------------------------------
(* RAGEngine: the helpers of generate_response_with_chat *)

\* how many resolution turns _check_recent_document_requests collects
RecentLimit == 3
\* _create_context looks at the last HistoryWindow turns, the current one included
HistoryWindow == 6

Min(a, b) == IF a <= b THEN a ELSE b

\* the loop as it would be if it stopped one match too late
RECURSIVE CheckFrom_late(_, _, _)
CheckFrom_late(h, i, requests) ==
    IF i = 0 THEN requests
    ELSE IF h[i].role = "system" /\ Contains(h[i].content, Marker)
         THEN LET r == Append(requests, h[i].content)
              IN  IF Len(r) > RecentLimit THEN r ELSE CheckFrom_late(h, i - 1, r)
         ELSE CheckFrom_late(h, i - 1, requests)

\* the loop of _check_recent_document_requests, from turn i down to the first
RECURSIVE CheckFrom(_, _, _)
CheckFrom(h, i, requests) ==
    IF i = 0 THEN requests
    ELSE IF h[i].role = "system" /\ Contains(h[i].content, Marker)
         THEN LET r == Append(requests, h[i].content)
              IN  IF Len(r) >= RecentLimit THEN r ELSE CheckFrom(h, i - 1, r)
         ELSE CheckFrom(h, i - 1, requests)

\* RAGEngine._check_recent_document_requests
check_recent_document_requests(h) == CheckFrom(h, Len(h), << >>)

\* the block _create_context writes for the i-th retrieved chunk
DocBlock(i, doc) ==
    <<"Document ", Str(i), " (Source: ">> \o basename(doc.source)
        \o <<", Pages: ", Str(doc.page_start), "-", Str(doc.page_end), "):\n">>
        \o doc.text \o <<"\n\n">>

RECURSIVE DocBlocks(_, _)
DocBlocks(docs, i) ==
    IF i > Len(docs) THEN << >> ELSE DocBlock(i, docs[i]) \o DocBlocks(docs, i + 1)

\* the slice as it would be if it did not drop the current query
recent_history_whole(h) == Slice(h, Len(h) - Min(HistoryWindow, Len(h)) + 1, Len(h))

\* chat_history[-min(6, len(chat_history)):-1]
recent_history(h) == Slice(h, Len(h) - Min(HistoryWindow, Len(h)) + 1, Len(h) - 1)

\* the rendering as it would be if system messages were not skipped
RECURSIVE HistoryLines_all(_)
HistoryLines_all(msgs) ==
    IF msgs = << >> THEN << >>
    ELSE <<capitalize(msgs[1].role), ": ">> \o msgs[1].content \o <<"\n">>
         \o HistoryLines_all(Tail(msgs))

\* the loop of _create_context over the recent messages
RECURSIVE HistoryLines(_)
HistoryLines(msgs) ==
    IF msgs = << >> THEN << >>
    ELSE (IF msgs[1].role = "system" THEN << >>
          ELSE <<capitalize(msgs[1].role), ": ">> \o msgs[1].content \o <<"\n">>)
         \o HistoryLines(Tail(msgs))

HistoryHead == <<"\nRecent conversation history:\n">>

\* RAGEngine._create_context
create_context(docs, h) ==
    <<"Here are some relevant documents to help answer the question:\n\n">>
        \o DocBlocks(docs, 1)
        \o (IF Len(h) > 1 THEN HistoryHead \o HistoryLines(recent_history(h)) ELSE << >>)

PromptRole == <<"Anda adalah asisten hukum yang ahli dalam hukum Indonesia.">>
PromptAnswerOnly == <<"Silakan jawab pertanyaan di bawah ini berdasarkan informasi yang terdapat dalam dokumen di atas.">>
PromptCatalogHead == <<"Berikut daftar dokumen yang tersedia:">>
PromptCatalogTail == <<"Jika Anda ingin meminta dokumen tertentu, tambahkan tag [REQUEST_DOCUMENT:nama_dokumen] di akhir jawaban Anda.">>
PromptRecentHead == <<"Informasi terkait permintaan dokumen sebelumnya:">>
PromptQuestion == <<"Question: ">>
PromptAnswer == <<"Answer:">>

\* the prompt as it would be if the summary of the recent requests were
\* written before the catalog
create_prompt_recent_first(query, ctx, docs, recent) ==
    PromptRole \o ctx \o PromptAnswerOnly
        \o (IF Len(recent) > 0 THEN PromptRecentHead \o Join(recent, <<" ">>) ELSE << >>)
        \o (IF docs # << >>
            THEN PromptCatalogHead \o Join(docs, <<", ">>) \o PromptCatalogTail
            ELSE << >>)
        \o PromptQuestion \o query \o PromptAnswer

\* RAGEngine._create_prompt
create_prompt(query, ctx, docs, recent) ==
    PromptRole \o ctx \o PromptAnswerOnly
        \o (IF docs # << >>   \* `if available_documents:`
            THEN PromptCatalogHead \o Join(docs, <<", ">>) \o PromptCatalogTail
            ELSE << >>)
        \o (IF Len(recent) > 0 THEN PromptRecentHead \o Join(recent, <<" ">>) ELSE << >>)
        \o PromptQuestion \o query \o PromptAnswer

FallbackAsk == <<"Pengguna bertanya:">>
FallbackCatalogHead == <<"Sayangnya, tidak ada dokumen yang relevan ditemukan dalam basis data kami. Namun, kami memiliki dokumen-dokumen berikut:">>
FallbackTail == <<"Tambahkan [REQUEST_DOCUMENT:nama_dokumen] di bagian akhir respons Anda.">>

\* the fallback prompt as it would be if it named only the first document
fallback_prompt_first(query, docs) ==
    PromptRole \o FallbackAsk \o query \o FallbackCatalogHead
        \o docs[1] \o FallbackTail

\* the prompt of RAGEngine._handle_no_relevant_docs
fallback_prompt(query, docs) ==
    PromptRole \o FallbackAsk \o query \o FallbackCatalogHead
        \o Join(docs, <<", ">>) \o FallbackTail

-----------------------------------------------------------------------------
(* Inputs of a session *)

Doc1 == <<"UU-1.pdf">>
Doc2 == <<"UU-2.pdf">>

\* results of Load Data: the catalogs the session can hold
Catalogs == {<<Doc1>>, <<Doc1, Doc2>>}

Queries == {<<"q1">>, <<"q2">>}

Chunk1 == [source |-> <<"processed_data/">> \o Doc1, text |-> <<"text-1">>,
           page_start |-> 1, page_end |-> 2]
Chunk2 == [source |-> <<"processed_data/">> \o Doc2, text |-> <<"text-2">>,
           page_start |-> 3, page_end |-> 3]

\* non-empty results of vector_store.similarity_search, in ranked order
RetrievalResults == {<<Chunk1>>, <<Chunk2, Chunk1>>}

\* texts the language model returns
BackendReplies ==
    { <<"foo">>,
      <<"foo", " ", "[", "REQUEST_DOCUMENT:", "UU-1.pdf", "]">>,
      <<"bar", "[", "REQUEST_DOCUMENT:", " ", "UU-2.pdf", " ", "]", " ">>,
      <<"foo", "[", "REQUEST_DOCUMENT:", " ", "]">>,
      <<"[", "REQUEST_DOCUMENT:", "UU-2.pdf", "]", "[", "REQUEST_DOCUMENT:", "UU-1.pdf", "]">> }

-----------------------------------------------------------------------------
(* The call frame *)

NoResponse == [none |-> TRUE]

NoCall ==
    /\ pc = "idle"
    /\ entry = "none"
    /\ call = [none |-> TRUE]
    /\ path = "none"
    /\ recent_document_requests = << >>
    /\ relevant_docs = << >>
    /\ context = None
    /\ prompt = None
    /\ backend_calls = 0
    /\ backend_raised = FALSE
    /\ raw_response = None
    /\ processed_response = NoResponse
    /\ response = NoResponse

\* a fresh frame for a call with these arguments
Enter(who, query, history, docs) ==
    /\ pc' = "retrieving"
    /\ entry' = who
    /\ call' = [query |-> query, chat_history |-> history, available_documents |-> docs]
    /\ path' = "none"
    /\ recent_document_requests' = << >>
    /\ relevant_docs' = << >>
    /\ context' = None
    /\ prompt' = None
    /\ backend_calls' = 0
    /\ backend_raised' = FALSE
    /\ raw_response' = None
    /\ processed_response' = NoResponse
    /\ response' = NoResponse

\* the frame is dropped when the caller has taken the result
Leave ==
    /\ pc' = "idle"
    /\ entry' = "none"
    /\ call' = [none |-> TRUE]
    /\ path' = "none"
    /\ recent_document_requests' = << >>
    /\ relevant_docs' = << >>
    /\ context' = None
    /\ prompt' = None
    /\ backend_calls' = 0
    /\ backend_raised' = FALSE
    /\ raw_response' = None
    /\ processed_response' = NoResponse
    /\ response' = NoResponse

-----------------------------------------------------------------------------
(* app.py: the session *)

Init ==
    /\ chat_history = << >>
    /\ pending_doc_request = None
    /\ available_documents \in Catalogs
    /\ model \in BOOLEAN
    /\ NoCall
    /\ response_text = << >>
    /\ processed = NotRun

\* an id that counts only the turns shown to the user
next_id_visible(h) == Cardinality({i \in 1..Len(h) : h[i].role # "system"})

\* len(st.session_state.chat_history), the id given to the turn appended
next_id(h) == Len(h)

\* the chat input handler as it would be if it called the engine with the
\* history it had before the user turn was appended
ChatInput_stale(q) ==
    /\ pc = "idle"
    /\ Len(chat_history) + 2 <= MaxTurns
    /\ chat_history' = Append(chat_history,
           [role |-> "user", content |-> q, id |-> next_id(chat_history)])
    /\ Enter("app", q, chat_history, available_documents)
    /\ UNCHANGED <<pending_doc_request, available_documents, model, parse_vars>>

\* chat input handler, first half: append the user turn and call the engine
ChatInput(q) ==
    /\ pc = "idle"
    /\ Len(chat_history) + 2 <= MaxTurns
    /\ chat_history' = Append(chat_history,
           [role |-> "user", content |-> q, id |-> next_id(chat_history)])
    /\ Enter("app", q, chat_history', available_documents)
    /\ UNCHANGED <<pending_doc_request, available_documents, model, parse_vars>>

\* the second half as it would be if the request were installed whenever the
\* result has the key, an empty name included
ChatAnswer_unchecked ==
    /\ pc = "done"
    /\ entry = "app"
    /\ pending_doc_request' =
           IF "document_request" \in DOMAIN response
           THEN response.document_request
           ELSE pending_doc_request
    /\ chat_history' = Append(chat_history,
           [role |-> "assistant", content |-> response.answer,
            sources |-> Get(response, "sources", << >>), id |-> next_id(chat_history)])
    /\ Leave
    /\ UNCHANGED <<available_documents, model, parse_vars>>

\* chat input handler, second half: install the request, append the answer
ChatAnswer ==
    /\ pc = "done"
    /\ entry = "app"
    /\ pending_doc_request' =
           IF "document_request" \in DOMAIN response /\ Truthy(response.document_request)
           THEN response.document_request
           ELSE pending_doc_request
    /\ chat_history' = Append(chat_history,
           [role |-> "assistant", content |-> response.answer,
            sources |-> Get(response, "sources", << >>), id |-> next_id(chat_history)])
    /\ Leave
    /\ UNCHANGED <<available_documents, model, parse_vars>>

\* the resolution turn as it would be if the document name were left out
ResolutionTurn_nameless(prefix) ==
    [role |-> "system", content |-> prefix,
     id |-> next_id(chat_history), visible |-> FALSE]

\* the turn a resolution button appends
ResolutionTurn(prefix) ==
    [role |-> "system", content |-> prefix \o pending_doc_request[1],
     id |-> next_id(chat_history), visible |-> FALSE]

\* "Setuju" button
Approve ==
    /\ pc = "idle"
    /\ Truthy(pending_doc_request)
    /\ Len(chat_history) + 1 <= MaxTurns
    /\ chat_history' = Append(chat_history, ResolutionTurn(ApprovePrefix))
    /\ pending_doc_request' = None
    /\ UNCHANGED <<available_documents, model, call_vars, parse_vars>>

\* "Tolak" button
Reject ==
    /\ pc = "idle"
    /\ Truthy(pending_doc_request)
    /\ Len(chat_history) + 1 <= MaxTurns
    /\ chat_history' = Append(chat_history, ResolutionTurn(RejectPrefix))
    /\ pending_doc_request' = None
    /\ UNCHANGED <<available_documents, model, call_vars, parse_vars>>

\* "Mulai Percakapan Baru" button
NewConversation ==
    /\ pc = "idle"
    /\ chat_history' = << >>
    /\ pending_doc_request' = None
    /\ UNCHANGED <<available_documents, model, call_vars, parse_vars>>

-----------------------------------------------------------------------------
(* rag_engine.py: one call of generate_response_with_chat, step by step *)

engine_frame == <<session_vars, parse_vars, entry, call>>

\* what the steps before and after the generation leave alone
untouched == <<engine_frame, context>>

\* self.model is None: the call returns at once
ModelNotInitialized ==
    /\ pc = "retrieving"
    /\ ~model
    /\ response' = [answer |-> NotInitializedMsg, sources |-> << >>]
    /\ path' = "not_initialized"
    /\ pc' = "done"
    /\ UNCHANGED <<untouched, recent_document_requests, relevant_docs, prompt,
                   backend_calls, backend_raised, raw_response, processed_response>>

\* the except clause as it would be if it returned the message alone
error_result_bare(e) == [answer |-> ErrorPrefix \o e]

\* the dict the except clause of generate_response_with_chat returns
error_result(e) == [answer |-> ErrorPrefix \o e, sources |-> << >>]

\* the catalog test as it would be if the fallback were taken unconditionally
has_catalog_always(docs) == TRUE

\* `if available_documents:` -- None and the empty list are both falsy, and
\* both are the empty sequence here
has_catalog(docs) == docs # << >>

\* similarity_search raises: the except clause builds the result
RetrievalFails ==
    /\ pc = "retrieving"
    /\ model
    /\ recent_document_requests' = check_recent_document_requests(call.chat_history)
    /\ response' = error_result(RetrievalExc)
    /\ path' = "retrieval_error"
    /\ pc' = "done"
    /\ UNCHANGED <<untouched, relevant_docs, prompt, backend_calls, backend_raised,
                   raw_response, processed_response>>

\* similarity_search returns nothing
RetrieveNothing ==
    /\ pc = "retrieving"
    /\ model
    /\ recent_document_requests' = check_recent_document_requests(call.chat_history)
    /\ relevant_docs' = << >>
    /\ IF has_catalog(call.available_documents)
       THEN /\ path' = "fallback"
            /\ pc' = "no_results"
            /\ UNCHANGED response
       ELSE /\ path' = "fixed"
            /\ pc' = "done"
            /\ response' = [answer |-> NoInfoMsg, sources |-> << >>]
    /\ UNCHANGED <<untouched, prompt, backend_calls, backend_raised,
                   raw_response, processed_response>>

\* similarity_search returns ranked chunks
RetrieveDocs(docs) ==
    /\ pc = "retrieving"
    /\ model
    /\ recent_document_requests' = check_recent_document_requests(call.chat_history)
    /\ relevant_docs' = docs
    /\ path' = "found"
    /\ pc' = "results_found"
    /\ UNCHANGED <<untouched, prompt, backend_calls, backend_raised,
                   raw_response, processed_response, response>>

\* RAGEngine._generate_with_gemini: the text it returns when the backend
\* answers out (a reply) or raises (out = None)
generate_with_gemini(out) ==
    IF out = None THEN ErrorPrefix \o BackendExc ELSE out[1]

BackendOutcomes == {None} \cup {Some(r) : r \in BackendReplies}

\* the generation as it would be if a failed backend call were tried again,
\* up to three times
Generate_retrying(p, out) ==
    /\ prompt' = Some(p)
    /\ backend_calls' = backend_calls + 1
    /\ backend_raised' = (out = None)
    /\ raw_response' = Some(generate_with_gemini(out))
    /\ pc' = IF out = None /\ backend_calls + 1 < 3 THEN pc ELSE "generated"
    /\ UNCHANGED <<engine_frame, path, recent_document_requests, relevant_docs,
                   processed_response, response>>

\* the backend is handed p and answers out
Generate(p, out) ==
    /\ prompt' = Some(p)
    /\ backend_calls' = backend_calls + 1
    /\ backend_raised' = (out = None)
    /\ raw_response' = Some(generate_with_gemini(out))
    /\ pc' = "generated"
    /\ UNCHANGED <<engine_frame, path, recent_document_requests, relevant_docs,
                   processed_response, response>>

\* results found: context, prompt, generation
GenerateFound(out) ==
    /\ pc = "results_found"
    /\ context' = Some(create_context(relevant_docs, call.chat_history))
    /\ Generate(create_prompt(call.query, context'[1],
                              call.available_documents, recent_document_requests),
                out)

\* _handle_no_relevant_docs: fallback prompt, generation
GenerateFallback(out) ==
    /\ pc = "no_results"
    /\ UNCHANGED context
    /\ Generate(fallback_prompt(call.query, call.available_documents), out)

\* the call of _process_response on the generated text
Parse ==
    /\ pc = "generated"
    /\ processed_response' = process_response(raw_response[1])
    /\ pc' = "parsed"
    /\ UNCHANGED <<untouched, path, recent_document_requests, relevant_docs, prompt,
                   backend_calls, backend_raised, raw_response, response>>

\* the dict as it would be if the sources were listed in the opposite order
result_found_reversed(p, docs) ==
    [answer |-> p.answer,
     sources |-> [i \in 1..Len(docs) |-> docs[Len(docs) + 1 - i]],
     document_request |-> Get(p, "document_request", None)]

\* the dict generate_response_with_chat returns after parsing
result_found(p, docs) ==
    [answer |-> p.answer, sources |-> docs,
     document_request |-> Get(p, "document_request", None)]

\* the dict _handle_no_relevant_docs returns
result_fallback(p) == p

\* the return as it would be if the engine itself recorded the request in
\* the caller's pending slot
Return_installing ==
    /\ pc = "parsed"
    /\ response' = IF path = "found"
                   THEN result_found(processed_response, relevant_docs)
                   ELSE result_fallback(processed_response)
    /\ pending_doc_request' = Get(processed_response, "document_request", None)
    /\ pc' = "done"
    /\ UNCHANGED <<chat_history, available_documents, model, parse_vars, entry,
                   call, context, path, recent_document_requests, relevant_docs,
                   prompt, backend_calls, backend_raised, raw_response,
                   processed_response>>

\* the return statements at the end of generate_response_with_chat (found)
\* and of _handle_no_relevant_docs (fallback)
Return ==
    /\ pc = "parsed"
    /\ response' = IF path = "found"
                   THEN result_found(processed_response, relevant_docs)
                   ELSE result_fallback(processed_response)
    /\ pc' = "done"
    /\ UNCHANGED <<untouched, path, recent_document_requests, relevant_docs, prompt,
                   backend_calls, backend_raised, raw_response, processed_response>>

Next ==
    \/ \E q \in Queries : ChatInput(q)
    \/ ChatAnswer
    \/ Approve
    \/ Reject
    \/ NewConversation
    \/ ModelNotInitialized
    \/ RetrievalFails
    \/ RetrieveNothing
    \/ \E docs \in RetrievalResults : RetrieveDocs(docs)
    \/ \E out \in BackendOutcomes : GenerateFound(out)
    \/ \E out \in BackendOutcomes : GenerateFallback(out)
    \/ Parse
    \/ Return

Spec == Init /\ [][Next]_vars

-----------------------------------------------------------------------------
(* Direct calls of the engine: generate_response_with_chat with arguments  *)
(* of any shape, generate_response among them                               *)

\* turns a caller may pass
TurnChoices ==
    { [role |-> "user", content |-> <<"q1">>],
      [role |-> "assistant", content |-> <<"foo">>],
      [role |-> "system", content |-> ApprovePrefix \o Doc1],
      [role |-> "system", content |-> RejectPrefix \o Doc2] }

CallHistories == UNION {[1..n -> TurnChoices] : n \in 0..MaxHistory}

\* RAGEngine.generate_response: the arguments it passes on
fake_history(q) == <<[role |-> "user", content |-> q]>>

CallInit ==
    /\ chat_history = << >>
    /\ pending_doc_request = None
    /\ available_documents = << >>
    /\ model \in BOOLEAN
    /\ pc = "retrieving"
    /\ entry = "direct"
    /\ \E q \in Queries, h \in CallHistories \cup {fake_history(x) : x \in Queries},
          docs \in Catalogs \cup {<< >>} :
          call = [query |-> q, chat_history |-> h, available_documents |-> docs]
    /\ path = "none"
    /\ recent_document_requests = << >>
    /\ relevant_docs = << >>
    /\ context = None
    /\ prompt = None
    /\ backend_calls = 0
    /\ backend_raised = FALSE
    /\ raw_response = None
    /\ processed_response = NoResponse
    /\ response = NoResponse
    /\ response_text = << >>
    /\ processed = NotRun

CallNext ==
    \/ ModelNotInitialized
    \/ RetrievalFails
    \/ RetrieveNothing
    \/ \E docs \in RetrievalResults : RetrieveDocs(docs)
    \/ \E out \in BackendOutcomes : GenerateFound(out)
    \/ \E out \in BackendOutcomes : GenerateFallback(out)
    \/ Parse
    \/ Return

SpecCall == CallInit /\ [][CallNext]_vars

-----------------------------------------------------------------------------
(* The history scan and the context builder over longer histories: the      *)
(* first steps of a call that finds results                                 *)

\* turns of a conversation: a query, an answer that happens to hold the
\* marker phrase, and the two hidden resolution turns the app writes
HistoryTurns ==
    { [role |-> "user", content |-> <<"q1">>],
      [role |-> "assistant", content |-> <<"foo", " ">> \o Marker],
      [role |-> "system", content |-> ApprovePrefix \o Doc1, visible |-> FALSE],
      [role |-> "system", content |-> RejectPrefix \o Doc2, visible |-> FALSE] }

HistoryInit ==
    /\ chat_history = << >>
    /\ pending_doc_request = None
    /\ available_documents = << >>
    /\ model = TRUE
    /\ pc = "retrieving"
    /\ entry = "direct"
    /\ \E n \in 0..MaxScan : \E h \in [1..n -> HistoryTurns] :
          call = [query |-> <<"q1">>, chat_history |-> h,
                  available_documents |-> <<Doc1>>]
    /\ path = "none"
    /\ recent_document_requests = << >>
    /\ relevant_docs = << >>
    /\ context = None
    /\ prompt = None
    /\ backend_calls = 0
    /\ backend_raised = FALSE
    /\ raw_response = None
    /\ processed_response = NoResponse
    /\ response = NoResponse
    /\ response_text = << >>
    /\ processed = NotRun

HistoryNext ==
    \/ \E docs \in RetrievalResults : RetrieveDocs(docs)
    \/ GenerateFound(Some(<<"foo">>))

SpecHistory == HistoryInit /\ [][HistoryNext]_vars

\* the call runs in one thread and the retriever and the backend return or
\* raise: a step that can be taken is taken
SpecCallFair == SpecCall /\ WF_vars(CallNext)

-----------------------------------------------------------------------------
(* Parser runs: _process_response applied to every raw text up to MaxRaw   *)
(* over the characters the pattern tells apart, and to every raw text up   *)
(* to MaxWordy that holds ordinary words as well                            *)

TagAtoms == {"[", "REQUEST_DOCUMENT:", "]", " "}
RawAtoms == TagAtoms \cup {"foo"}

ParseInit ==
    /\ \/ \E n \in 0..MaxRaw : response_text \in [1..n -> TagAtoms]
       \/ \E n \in 0..MaxWordy : response_text \in [1..n -> RawAtoms]
    /\ processed = NotRun
    /\ chat_history = << >>
    /\ pending_doc_request = None
    /\ available_documents = << >>
    /\ model = TRUE
    /\ NoCall

ProcessResponse ==
    /\ processed = NotRun
    /\ processed' = process_response(response_text)
    /\ UNCHANGED <<response_text, session_vars, call_vars>>

ParseNext == ProcessResponse

SpecParse == ParseInit /\ [][ParseNext]_vars

-----------------------------------------------------------------------------
(* What the claims speak of, stated without the parser's own operators *)

\* s[i..j] is a directive [REQUEST_DOCUMENT:<name>], <name> a non-empty run
\* of non-"]" characters
IsDirective(s, i, j) ==
    /\ 1 <= i /\ i + 3 <= j /\ j <= Len(s)
    /\ s[i] = "[" /\ s[i + 1] = "REQUEST_DOCUMENT:" /\ s[j] = "]"
    /\ \A k \in (i + 2)..(j - 1) : s[k] # "]"

Directives(s) == {d \in (1..Len(s)) \X (1..Len(s)) : IsDirective(s, d[1], d[2])}

HasDirective(s) == Directives(s) # {}

\* the leftmost directive of s, as <<first position, last position>>
FirstDirective(s) ==
    CHOOSE d \in Directives(s) : \A e \in Directives(s) : d[1] <= e[1]

DirectiveName(s, d) == SubSeq(s, d[1] + 2, d[2] - 1)

\* s without its leading and trailing blanks
RECURSIVE Trimmed(_)
Trimmed(s) ==
    IF s = << >> THEN s
    ELSE IF Head(s) = " " THEN Trimmed(Tail(s))
    ELSE IF s[Len(s)] = " " THEN Trimmed(SubSeq(s, 1, Len(s) - 1))
    ELSE s

\* a can be obtained from b by deleting characters
RECURSIVE IsSubsequence(_, _)
IsSubsequence(a, b) ==
    IF a = << >> THEN TRUE
    ELSE IF b = << >> THEN FALSE
    ELSE IF Head(a) = Head(b) THEN IsSubsequence(Tail(a), Tail(b))
    ELSE IsSubsequence(a, Tail(b))

\* s with the piece d[1]..d[2] cut out
Without(s, d) == Slice(s, 1, d[1] - 1) \o Slice(s, d[2] + 1, Len(s))

\* retrieval returned an empty result in the call in progress
RetrievedNothing == path \in {"fixed", "fallback"}

\* the backend has been handed a prompt in the call in progress
BackendInvoked == pc \in {"generated", "parsed", "done"} /\ path \in {"found", "fallback"}

-----------------------------------------------------------------------------
(* C1 *)

\* C1: a call in which retrieval returns nothing and no catalog is given
\* returns the fixed no-relevant-information message with sources = [] and
\* never invokes the backend, whatever the history holds.
C1_FixedMessageWithoutBackend ==
    (RetrievedNothing /\ call.available_documents = << >>) =>
        /\ pc = "done"
        /\ response = [answer |-> NoInfoMsg, sources |-> << >>]
        /\ backend_calls = 0
        /\ prompt = None

C1_Witness ==
    /\ pc = "done"
    /\ RetrievedNothing
    /\ call.available_documents = << >>
    /\ \E i \in 1..Len(call.chat_history) : call.chat_history[i].role = "system"
    /\ response.answer = NoInfoMsg

-----------------------------------------------------------------------------
(* C2 *)

\* C2: a call in which the backend fails returns a result whose sources are
\* [] and whose answer is a non-empty text describing the failure, on the
\* results-found path as on the fallback path.
C2_BackendFailureResult ==
    (pc = "done" /\ backend_raised) =>
        /\ "answer" \in DOMAIN response
        /\ response.answer # << >>
        /\ Contains(response.answer, BackendExc)
        /\ "sources" \in DOMAIN response
        /\ response.sources = << >>

-----------------------------------------------------------------------------
(* C3 *)

\* C3: a call in which retrieval fails returns a result with a non-empty
\* error text and sources = [], and the backend is not invoked in that call.
C3_RetrievalFailureCaught ==
    (path = "retrieval_error") =>
        /\ pc = "done"
        /\ "answer" \in DOMAIN response
        /\ response.answer # << >>
        /\ Contains(response.answer, RetrievalExc)
        /\ "sources" \in DOMAIN response
        /\ response.sources = << >>
        /\ backend_calls = 0
        /\ prompt = None

C3_Witness ==
    /\ pc = "done"
    /\ path = "retrieval_error"
    /\ call.available_documents # << >>
    /\ response.answer = ErrorPrefix \o RetrievalExc

-----------------------------------------------------------------------------
(* C4 *)

\* C4: the answer the parser produces contains no directive
\* [REQUEST_DOCUMENT:<name>], also when the raw text carries several
\* directives or directives nested in one another.
C4_NoDirectiveInAnswer ==
    (processed # NotRun) => ~HasDirective(processed.answer)

-----------------------------------------------------------------------------
(* C5 *)

C5_Example ==
    process_response(<<"foo", " ", "[", "REQUEST_DOCUMENT:", " ", "bar.pdf", " ", "]">>)
        = [answer |-> <<"foo">>, document_request |-> Some(<<"bar.pdf">>)]

\* C5: when the raw text holds a directive, the document request is the
\* trimmed name of the leftmost one, whatever later directives name, and that
\* directive is cut out of the answer: the answer is what is left of the raw
\* text after it (exactly that, trimmed, when no directive follows it).
\* parse("foo [REQUEST_DOCUMENT: bar.pdf ]") = {"foo", "bar.pdf"}.
C5_FirstDirectiveHonoured ==
    /\ C5_Example
    /\ (processed # NotRun /\ HasDirective(response_text)) =>
          LET d == FirstDirective(response_text)
          IN  /\ "document_request" \in DOMAIN processed
              /\ processed.document_request
                     = Some(Trimmed(DirectiveName(response_text, d)))
              /\ IsSubsequence(processed.answer, Without(response_text, d))
              /\ ~HasDirective(Slice(response_text, d[2] + 1, Len(response_text)))
                     => processed.answer = Trimmed(Without(response_text, d))

\* two directives with different names, blanks around the first name
C5_Witness ==
    /\ processed # NotRun
    /\ Cardinality(Directives(response_text)) = 2
    /\ \E d \in Directives(response_text), e \in Directives(response_text) :
          /\ d[1] < e[1]
          /\ Trimmed(DirectiveName(response_text, d))
                 # Trimmed(DirectiveName(response_text, e))
          /\ processed.document_request
                 = Some(Trimmed(DirectiveName(response_text, d)))

-----------------------------------------------------------------------------
(* C6 *)

\* C6: when the raw text holds no directive, the answer is the raw text,
\* character for character, no request is signalled, and the result of the
\* call reports the document request as None (results found) or leaves it
\* out (fallback).
C6_PlainTextUnchanged ==
    (processed # NotRun /\ ~HasDirective(response_text)) =>
        /\ processed.answer = response_text
        /\ "document_request" \notin DOMAIN processed
        /\ result_found(processed, <<Chunk1>>).document_request = None
        /\ "document_request" \notin DOMAIN result_fallback(processed)

\* no directive, but blanks at both ends and the opening of a tag inside
C6_Witness ==
    /\ processed # NotRun
    /\ ~HasDirective(response_text)
    /\ Len(response_text) >= 5
    /\ response_text[1] = " "
    /\ response_text[Len(response_text)] = " "
    /\ Contains(response_text, <<"[", "REQUEST_DOCUMENT:", "]">>)
    /\ processed.answer = response_text

-----------------------------------------------------------------------------
(* C7 *)

\* answers the engine gives without invoking the backend
BackendFreeAnswers == {NotInitializedMsg, NoInfoMsg, ErrorPrefix \o RetrievalExc}

\* turn s of h is a resolution turn that no backend call has followed yet:
\* every answer after it was given without the backend
Unanswered(h, s) ==
    /\ h[s].role = "system"
    /\ \A t \in (s + 1)..Len(h) :
          h[t].role = "assistant" => h[t].content \in BackendFreeAnswers

\* C7: after a resolution turn was appended, the next call that invokes the
\* backend sends a prompt that contains the turn's content, on the
\* results-found path as on the fallback path.
C7_ResolutionReachesPrompt ==
    (entry = "app" /\ BackendInvoked) =>
        \A s \in 1..Len(call.chat_history) :
            Unanswered(call.chat_history, s) =>
                Contains(prompt[1], call.chat_history[s].content)

-----------------------------------------------------------------------------
(* C8 *)

\* C8: a call in which retrieval returns nothing and a catalog is given
\* invokes the backend with the fallback prompt and returns sources = [],
\* explicitly, with the parsed answer and the optional document request.
C8_FallbackResult ==
    (pc = "done" /\ path = "fallback") =>
        /\ backend_calls = 1
        /\ prompt = Some(fallback_prompt(call.query, call.available_documents))
        /\ response.answer = process_response(raw_response[1]).answer
        /\ "sources" \in DOMAIN response
        /\ response.sources = << >>

-----------------------------------------------------------------------------
(* C9 *)

\* C9: on the fallback path the prompt handed to the backend contains every
\* name of the catalog, and when the backend output carries a directive, the
\* document request returned is the name it gives (the leftmost one's),
\* exactly.
C9_FallbackCatalogAndRequest ==
    (BackendInvoked /\ path = "fallback") =>
        /\ prompt # None
        /\ \A k \in 1..Len(call.available_documents) :
              Contains(prompt[1], call.available_documents[k])
        /\ (pc = "done" /\ HasDirective(raw_response[1])) =>
              /\ "document_request" \in DOMAIN response
              /\ response.document_request
                     = Some(Trimmed(DirectiveName(raw_response[1],
                                                  FirstDirective(raw_response[1]))))

C9_Witness ==
    /\ pc = "done"
    /\ path = "fallback"
    /\ call.available_documents = <<Doc1, Doc2>>
    /\ Contains(raw_response[1], <<"[", "REQUEST_DOCUMENT:">> \o Doc1 \o <<"]">>)
    /\ response.document_request = Some(Doc1)

-----------------------------------------------------------------------------
(* C10 *)

\* C10: a pending request is never replaced by another request; the slot is
\* left only by a resolution or a reset, which empty it.
C10_PendingNeverReplaced ==
    [][pending_doc_request # None =>
           (pending_doc_request' = pending_doc_request \/ pending_doc_request' = None)]_vars

-----------------------------------------------------------------------------
(* C11 *)

\* the last turn of a history
Last(h) == h[Len(h)]

\* this step appends a system turn to the conversation
AppendsSystemTurn ==
    /\ Len(chat_history') > Len(chat_history)
    /\ Last(chat_history').role = "system"

\* C11: a resolution (approve or reject) happens only while a request is
\* pending; it appends exactly one turn, of role system, hidden, whose
\* content holds the marker and the pending document's name, it empties the
\* pending slot and leaves every earlier turn as it was.
C11_ResolutionAppendsHiddenTurn ==
    [][AppendsSystemTurn =>
         /\ pending_doc_request # None
         /\ Len(chat_history') = Len(chat_history) + 1
         /\ SubSeq(chat_history', 1, Len(chat_history)) = chat_history
         /\ Last(chat_history').visible = FALSE
         /\ Contains(Last(chat_history').content, Marker)
         /\ Contains(Last(chat_history').content, pending_doc_request[1])
         /\ pending_doc_request' = None]_vars

\* a rejection of UU-2.pdf has just been appended after an earlier turn pair
C11_Witness ==
    /\ Len(chat_history) >= 3
    /\ Last(chat_history).role = "system"
    /\ Last(chat_history).content = RejectPrefix \o Doc2
    /\ Last(chat_history).visible = FALSE
    /\ pending_doc_request = None

-----------------------------------------------------------------------------
(* C12 *)

\* the ids of a history increase strictly along the list
StrictlyIncreasingIds(h) ==
    \A i, j \in 1..Len(h) : i < j => h[i].id < h[j].id

\* each id is the length the history had when the turn was appended
IdsAssignedAtAppend(h) == \A i \in 1..Len(h) : h[i].id = i - 1

\* the step appends turns to the history and leaves the earlier ones alone
OnlyAppends ==
    /\ Len(chat_history') >= Len(chat_history)
    /\ SubSeq(chat_history', 1, Len(chat_history)) = chat_history

\* C12: in every reachable state the ids of the turns increase strictly in
\* list order and each is the one assigned at append (the length of the
\* history at that moment); a query, an answer, an approval and a rejection
\* only append turns: none reorders, removes or changes an existing turn
\* (only a new conversation, which empties the history, is excepted).
C12_IdsIncreaseTurnsOnlyAppended ==
    /\ [](StrictlyIncreasingIds(chat_history)
            /\ IdsAssignedAtAppend(chat_history))
    /\ [][OnlyAppends \/ chat_history' = << >>]_vars

\* a history with a query, an answer, a hidden resolution and a later query
C12_Witness ==
    /\ Len(chat_history) >= 4
    /\ \E i \in 1..Len(chat_history) - 1 :
           /\ chat_history[i].role = "system"
           /\ chat_history[i + 1].role = "user"
           /\ chat_history[i + 1].id = i

-----------------------------------------------------------------------------
(* C20 *)

\* the app is inside a call of the engine
AppCallActive == entry = "app" /\ pc # "idle"

\* C20: whenever the app calls answer, the last turn of the history passed
\* in is the user turn whose content is the query being answered, also
\* when hidden system turns were appended to the history earlier.
C20_LastTurnIsTheQuery ==
    AppCallActive =>
        /\ Len(call.chat_history) >= 1
        /\ Last(call.chat_history).role = "user"
        /\ Last(call.chat_history).content = call.query

\* a call whose history holds a hidden system turn and an earlier, different
\* query before the query being answered
C20_Witness ==
    /\ AppCallActive
    /\ \E i \in 1..Len(call.chat_history) - 1 :
           /\ call.chat_history[i].role = "system"
           /\ call.chat_history[i].visible = FALSE
    /\ \E i \in 1..Len(call.chat_history) - 1 :
           /\ call.chat_history[i].role = "user"
           /\ call.chat_history[i].content # call.query

-----------------------------------------------------------------------------
(* C16 *)

\* a step taken inside a call of the engine
EngineStep == pc # "idle" /\ pc' # "idle"

\* the result of a finished call, from its arguments, the engine's model
\* handle and what the retriever and the backend gave
ResultOf(c, route, docs, raw) ==
    CASE route = "not_initialized" -> [answer |-> NotInitializedMsg, sources |-> << >>]
      [] route = "retrieval_error" -> [answer |-> ErrorPrefix \o RetrievalExc,
                                       sources |-> << >>]
      [] route = "fixed" -> [answer |-> NoInfoMsg, sources |-> << >>]
      [] route = "found" ->
            [answer |-> process_response(raw[1]).answer, sources |-> docs,
             document_request |->
                 Get(process_response(raw[1]), "document_request", None)]
      [] route = "fallback" -> process_response(raw[1])

\* the prompt of a call, from its arguments and what the retriever gave
PromptOf(c, route, docs) ==
    CASE route = "found" ->
            Some(create_prompt(c.query, create_context(docs, c.chat_history),
                               c.available_documents,
                               check_recent_document_requests(c.chat_history)))
      [] route = "fallback" -> Some(fallback_prompt(c.query, c.available_documents))
      [] OTHER -> None

\* C16: a call of answer leaves the conversation as it was and keeps nothing
\* between calls: on every path the history passed in and the caller's
\* pending slot are after the call what they were before it, the prompt and
\* the result are functions of the arguments and of what the retriever and
\* the backend gave, and once the call is over none of its state is left.
C16_CallLeavesConversationUnchanged ==
    /\ [][EngineStep => UNCHANGED <<chat_history, pending_doc_request, call>>]_vars
    /\ [](AppCallActive => call.chat_history = chat_history)
    /\ [](pc = "done" =>
            /\ response = ResultOf(call, path, relevant_docs, raw_response)
            /\ prompt = PromptOf(call, path, relevant_docs))
    /\ [](pc = "idle" => NoCall)

\* a call on the fallback path is over and returned a request, after a
\* resolved request earlier in the conversation: the slot is still empty
C16_Witness ==
    /\ pc = "done"
    /\ entry = "app"
    /\ path = "fallback"
    /\ "document_request" \in DOMAIN response
    /\ Truthy(response.document_request)
    /\ pending_doc_request = None
    /\ Len(chat_history) >= 4
    /\ \E i \in 1..Len(chat_history) : chat_history[i].role = "system"

-----------------------------------------------------------------------------
(* C15 *)

\* seg is written in text from position i on
OccursAt(text, i, seg) ==
    /\ i >= 1
    /\ i + Len(seg) - 1 <= Len(text)
    /\ SubSeq(text, i, i + Len(seg) - 1) = seg

\* where seg first occurs in text, 0 if nowhere
FirstAt(text, seg) ==
    LET at == {i \in 1..(Len(text) - Len(seg) + 1) : OccursAt(text, i, seg)}
    IN  IF at = {} THEN 0 ELSE CHOOSE i \in at : \A j \in at : i <= j

\* the prompt of the results-found path has been built
FoundPromptBuilt == path = "found" /\ prompt # None

\* the catalog segment: its heading, the names joined, the directive rule
CatalogSegment(docs) ==
    PromptCatalogHead \o Join(docs, <<", ">>) \o PromptCatalogTail

\* the segments of p are in the claimed order, the optional ones present
\* exactly when their input is non-empty
SegmentsInOrder(p, query, ctx, docs, recent) ==
    LET role     == FirstAt(p, PromptRole)
        ctxAt    == FirstAt(p, ctx)
        only     == FirstAt(p, PromptAnswerOnly)
        catalog  == FirstAt(p, PromptCatalogHead)
        summary  == FirstAt(p, PromptRecentHead)
        question == FirstAt(p, PromptQuestion)
        last     == PromptQuestion \o query \o PromptAnswer
    IN  /\ role = 1
        /\ ctxAt = role + Len(PromptRole)
        /\ only = ctxAt + Len(ctx)
        /\ (catalog # 0) <=> (docs # << >>)
        /\ catalog # 0 =>
              /\ catalog = only + Len(PromptAnswerOnly)
              /\ OccursAt(p, catalog, CatalogSegment(docs))
        /\ (summary # 0) <=> (recent # << >>)
        /\ summary # 0 =>
              /\ summary > only
              /\ summary > catalog
              /\ catalog # 0 => summary = catalog + Len(CatalogSegment(docs))
              /\ OccursAt(p, summary, PromptRecentHead \o Join(recent, <<" ">>))
        /\ question > only /\ question > catalog /\ question > summary
        /\ question = Len(p) - Len(last) + 1
        /\ SubSeq(p, question, Len(p)) = last

\* C15: the prompt of the results-found path has its segments in the order
\* role instruction, context block, answer-only instruction, document
\* catalog with the directive rule, summary of recent requests, question;
\* the catalog is there exactly when available_documents is non-empty, the
\* summary exactly when recent_document_requests is non-empty, and the
\* question is the last segment.
C15_PromptSegmentOrder ==
    FoundPromptBuilt =>
        SegmentsInOrder(prompt[1], call.query, context[1],
                        call.available_documents, recent_document_requests)

\* a results-found prompt with a two-name catalog and two resolved requests
C15_Witness ==
    /\ FoundPromptBuilt
    /\ Len(call.available_documents) = 2
    /\ Len(recent_document_requests) = 2
    /\ Contains(prompt[1], PromptCatalogHead)
    /\ Contains(prompt[1], PromptRecentHead)

-----------------------------------------------------------------------------
(* C17 *)

\* a call whose retrieval gave results and whose backend answered is over
FoundAndAnswered == pc = "done" /\ path = "found" /\ ~backend_raised

\* C17: when retrieval returns a non-empty result sequence and the backend
\* succeeds, the returned sources are the retrieved results in their ranked
\* order, the answer is the answer parsed from the backend output, and
\* document_request is the name of the directive parsed from it (the
\* leftmost one, trimmed), or None when the output holds no directive.
C17_FoundResult ==
    FoundAndAnswered =>
        /\ relevant_docs # << >>
        /\ DOMAIN response = {"answer", "sources", "document_request"}
        /\ response.sources = relevant_docs
        /\ response.answer = process_response(raw_response[1]).answer
        /\ response.document_request =
              IF HasDirective(raw_response[1])
              THEN Some(Trimmed(DirectiveName(raw_response[1],
                                              FirstDirective(raw_response[1]))))
              ELSE None

\* two ranked results, the backend asks for UU-2.pdf with blanks around it
C17_Witness ==
    /\ FoundAndAnswered
    /\ relevant_docs = <<Chunk2, Chunk1>>
    /\ response.sources = <<Chunk2, Chunk1>>
    /\ response.answer = <<"bar">>
    /\ response.document_request = Some(Doc2)

-----------------------------------------------------------------------------
(* C18 *)

\* the moves of one call: RETRIEVING, RESULTS_FOUND or NO_RESULTS,
\* GENERATING (left when the text is generated), PARSED, DONE; the calls
\* that fail or answer at once go from RETRIEVING to the end
Edges ==
    { <<"retrieving", "results_found">>, <<"retrieving", "no_results">>,
      <<"retrieving", "done">>,
      <<"results_found", "generated">>, <<"no_results", "generated">>,
      <<"generated", "parsed">>, <<"parsed", "done">> }

\* the step moves the call along one edge
FollowsEdge == \E e \in Edges : pc = e[1] /\ pc' = e[2]

\* how many times each path invokes the backend
BackendCallsOf(route) == IF route \in {"found", "fallback"} THEN 1 ELSE 0

\* C18: every call follows the per-turn state machine and terminates:
\* retrieval comes before any generation, generation before parsing, the
\* backend is invoked at most once (once on the results-found and fallback
\* paths, never on the fixed-message and failure paths), no state is entered
\* twice, and every call ends with a returned result.
C18_StateMachineAndTermination ==
    /\ [][FollowsEdge]_vars
    /\ [](/\ backend_calls <= 1
          /\ backend_calls > 0 => path \in {"found", "fallback"}
          /\ processed_response # NoResponse =>
                 (raw_response # None /\ backend_calls = 1)
          /\ pc = "done" =>
                 /\ backend_calls = BackendCallsOf(path)
                 /\ "answer" \in DOMAIN response)
    /\ <>(pc = "done")
    /\ [][pc = "done" => pc' = "done"]_vars

\* a fallback call whose one backend invocation failed has ended
C18_Witness ==
    /\ pc = "done"
    /\ path = "fallback"
    /\ backend_calls = 1
    /\ backend_raised
    /\ "answer" \in DOMAIN response

-----------------------------------------------------------------------------
(* C13 *)

\* the turns of h that are hidden system turns signalling a resolution
Resolutions(h) ==
    {i \in 1..Len(h) : /\ h[i].role = "system"
                        /\ h[i].visible = FALSE
                        /\ Contains(h[i].content, Marker)}

\* the k-th most recent of the positions in s
KthLatest(s, k) == CHOOSE i \in s : Cardinality({j \in s : j >= i}) = k

\* the history scan of the call has run
Scanned == path = "found"

\* C13: for every history, recent_document_requests holds the contents of
\* the min(3, n) most recent hidden system turns whose content signals a
\* resolution (n the number of such turns), the most recent first: never
\* more than 3, never an older match in place of a more recent one, never
\* a user or assistant turn.
C13_RecentRequestsAreLatestThree ==
    Scanned =>
        LET h == call.chat_history
            n == Cardinality(Resolutions(h))
        IN  /\ Len(recent_document_requests) = Min(3, n)
            /\ \A k \in 1..Len(recent_document_requests) :
                  recent_document_requests[k]
                      = h[KthLatest(Resolutions(h), k)].content

\* four resolutions in the history, the oldest one an approval that is left
\* out, and an answer holding the marker phrase after them
C13_Witness ==
    /\ Scanned
    /\ Cardinality(Resolutions(call.chat_history)) = 4
    /\ call.chat_history[1].content = ApprovePrefix \o Doc1
    /\ call.chat_history[Len(call.chat_history)].role = "assistant"
    /\ recent_document_requests
          = <<RejectPrefix \o Doc2, RejectPrefix \o Doc2, RejectPrefix \o Doc2>>

-----------------------------------------------------------------------------
(* C14 *)

\* the turns of h that are not system turns, in their order
NonSystem(h) == SelectSeq(h, LAMBDA t : t.role # "system")

\* the turns before the last one, which is the turn being answered
Preceding(h) == SubSeq(h, 1, Len(h) - 1)

\* the last k elements of s, all of s if it has fewer
LastOf(s, k) == SubSeq(s, Len(s) - Min(k, Len(s)) + 1, Len(s))

\* turns written one per line, each labelled with its role
RECURSIVE Rendered(_)
Rendered(turns) ==
    IF turns = << >> THEN << >>
    ELSE <<capitalize(turns[1].role), ": ">> \o turns[1].content \o <<"\n">>
         \o Rendered(Tail(turns))

\* the context of a call that has results and a history of two turns or more
ContextBuilt == context # None /\ Len(call.chat_history) >= 2

\* the context is the result blocks, the heading and then the given lines
EndsWithHistory(ctx, docs, lines) ==
    ctx = create_context(docs, << >>) \o HistoryHead \o lines

\* C14 as stated: after the result blocks come the last min(5, n - 1)
\* non-system turns that precede the current turn, whatever system turns lie
\* between them.
C14_LastFiveNonSystemTurns ==
    ContextBuilt =>
        LET h == call.chat_history
        IN  EndsWithHistory(context[1], relevant_docs,
                Rendered(LastOf(NonSystem(Preceding(h)), Min(5, Len(h) - 1))))

\* C14 (amended): for every history of length n >= 2 the context holds,
\* after the result blocks, the non-system turns among the last
\* min(5, n - 1) turns that precede the current turn, in their order, each
\* labelled with its role; a system turn among those turns takes up one of
\* the places and is not rendered.
C14_NonSystemTurnsOfLastFive ==
    ContextBuilt =>
        LET h == call.chat_history
        IN  EndsWithHistory(context[1], relevant_docs,
                Rendered(NonSystem(LastOf(Preceding(h), Min(5, Len(h) - 1)))))

\* seven turns, five non-system ones before the current query and a hidden
\* resolution among the last five: four lines are rendered
C14_Witness ==
    /\ ContextBuilt
    /\ Len(call.chat_history) = 7
    /\ Len(NonSystem(Preceding(call.chat_history))) = 5
    /\ call.chat_history[5].role = "system"
    /\ Len(NonSystem(LastOf(Preceding(call.chat_history), 5))) = 4
    /\ EndsWithHistory(context[1], relevant_docs,
           Rendered(NonSystem(SubSeq(call.chat_history, 2, 6))))

-----------------------------------------------------------------------------
(* C19 *)

\* the text after the history heading, None if the heading is not there
HistorySection(ctx) ==
    IF FirstAt(ctx, HistoryHead) = 0 THEN None
    ELSE Some(SubSeq(ctx, FirstAt(ctx, HistoryHead) + 1, Len(ctx)))

\* the turns of h at the positions in s, in their order
RECURSIVE TurnsAt(_, _, _)
TurnsAt(h, s, i) ==
    IF i > Len(h) THEN << >>
    ELSE (IF i \in s THEN <<h[i]>> ELSE << >>) \o TurnsAt(h, s, i + 1)

\* the context of a call that has results has been built
AnyContextBuilt == context # None

\* C19: the history section of the context holds no system turn, never the
\* final turn of the history and at most 5 turns: it is the rendering of at
\* most 5 non-system turns taken in order from before the final turn; a
\* history of length 0 or 1 gives no history section at all.
C19_HistorySectionBounds ==
    AnyContextBuilt =>
        LET h == call.chat_history
            section == HistorySection(context[1])
        IN  /\ Len(h) <= 1 => section = None
            /\ section # None =>
                  /\ ~Contains(section[1], <<"System">>)
                  /\ \E s \in SUBSET (1..(Len(h) - 1)) :
                        /\ Cardinality(s) <= 5
                        /\ \A i \in s : h[i].role # "system"
                        /\ section[1] = Rendered(TurnsAt(h, s, 1))

\* a history whose final turn is an answer seen nowhere earlier, with a
\* system turn before it: the section holds the query alone
C19_Witness ==
    /\ AnyContextBuilt
    /\ Len(call.chat_history) = 3
    /\ call.chat_history[1].role = "user"
    /\ call.chat_history[2].role = "system"
    /\ call.chat_history[3].role = "assistant"
    /\ HistorySection(context[1]) = Some(<<"User", ": ", "q1", "\n">>)

-----------------------------------------------------------------------------
(* C21 *)

\* a document name: not empty, no blank at either end
IsTrimmedName(name) == name # << >> /\ Trimmed(name) = name

\* the result of the call that has just ended carries this request
ResultRequests(req) ==
    /\ pc = "done"
    /\ "document_request" \in DOMAIN response
    /\ response.document_request = req

\* the result of the call that has just ended carries the empty name, which
\* is what a directive whose name is only blanks parses to
ResultRequestsNothing == ResultRequests(Some(<< >>))

\* C21: in every reachable state the pending slot is empty or holds a
\* non-empty name without blanks at its ends; the slot takes a name only
\* from the document_request of the result of a call of the conversation
\* (the call that has just ended); a directive whose name is only blanks
\* installs nothing; and a new conversation, the one step that shortens
\* the history, empties the history and the slot.
C21_PendingIsRequestedName ==
    /\ [](pending_doc_request # None => IsTrimmedName(pending_doc_request[1]))
    /\ [][(pending_doc_request' # pending_doc_request
            /\ pending_doc_request' # None)
               => ResultRequests(pending_doc_request')]_vars
    /\ [][ResultRequestsNothing
               => pending_doc_request' = pending_doc_request]_vars
    /\ [][Len(chat_history') < Len(chat_history)
               => (chat_history' = << >> /\ pending_doc_request' = None)]_vars

\* the answer "bar" has been appended and UU-2.pdf, which the backend named
\* with blanks around it, is pending without them
C21_Witness ==
    /\ pc = "idle"
    /\ Len(chat_history) >= 2
    /\ Last(chat_history).role = "assistant"
    /\ Last(chat_history).content = <<"bar">>
    /\ pending_doc_request = Some(Doc2)

=============================================================================
